---------------------------- MODULE Spec2Model ----------------------------
(***************************************************************************)
(* ScaleTicketPro: the invoice field extractor (services/xmlService.ts),   *)
(* the ticket form (App in types.ts) and the mock store                    *)
(* (services/mockFirestore.ts).                                            *)
(*                                                                         *)
(* Representation.                                                         *)
(*  - A JavaScript string is a sequence of one-character strings, so that  *)
(*    trim, toUpperCase, parseFloat, Date parsing and the regular          *)
(*    expressions are computed character by character.                     *)
(*  - null and undefined are both NULL (every test in the code that meets  *)
(*    them is a truthiness test or `=== null` on a field that is never     *)
(*    undefined when tested).                                              *)
(*  - A number is a tagged record: [k |-> "num", v |-> n] with n in        *)
(*    hundredths (0.01 kg), [k |-> "nan"], or NullNum.                     *)
(*  - A Date time value is [day, ms]: Day(t) and TimeWithinDay(t) of       *)
(*    ECMAScript, in local time with a fixed offset (no daylight saving).  *)
(*  - An XML document is the sequence of its elements in document order;   *)
(*    each element has its tag, the index of its parent (0: the document), *)
(*    its own text and its xCampo attribute.                               *)
(***************************************************************************)
EXTENDS Integers, Sequences, FiniteSets, TLC

VARIABLES
    file,               \* the File handed to parseInvoiceXml
    parsed,             \* NoCall, or the file and the result of the last parseInvoiceXml call
    trucks,             \* App state: useState<Truck[]>([])
    loadingTrucks,      \* App state
    selectedTruckId,    \* App state
    invoiceData,        \* App state: ParsingResult | null
    uploadError,        \* App state
    isProcessing,       \* App state
    lastPrintedTicket,  \* App state
    feedbackMessage,    \* App state
    showPreviewModal,   \* App state
    fetchPending,       \* fetchTrucks() promise not yet resolved
    uploads,            \* handleFileUpload calls awaiting parseInvoiceXml
    saves,              \* handleIssueTicket calls awaiting saveTicket
    saveCalled,         \* the clock at which each of them called saveTicket
    store,              \* localStorage[TICKETS_STORAGE_KEY]
    now,                \* the wall clock (Date.now / new Date())
    lenientHost,        \* whether the host's Date parser accepts "YYYY-MM-DD HH:MM"
    lastIssue,          \* history: how the last handleIssueTicket call ended
    nIssued             \* history: number of tickets constructed so far

appVars == <<trucks, loadingTrucks, selectedTruckId, invoiceData, uploadError,
             isProcessing, lastPrintedTicket, feedbackMessage, showPreviewModal,
             fetchPending, uploads, saves, saveCalled, store, now, lenientHost, lastIssue,
             nIssued>>
vars == <<file, parsed, appVars>>

-----------------------------------------------------------------------------
(* Characters and strings *)

NULL == <<"<null>">>
NullNum == [k |-> "null"]
NaN == [k |-> "nan"]
Num(n) == [k |-> "num", v |-> n]

DigitSeq == <<"0", "1", "2", "3", "4", "5", "6", "7", "8", "9">>
UpperSeq == <<"A", "B", "C", "D", "E", "F", "G", "H", "I", "J", "K", "L", "M",
              "N", "O", "P", "Q", "R", "S", "T", "U", "V", "W", "X", "Y", "Z">>
LowerSeq == <<"a", "b", "c", "d", "e", "f", "g", "h", "i", "j", "k", "l", "m",
              "n", "o", "p", "q", "r", "s", "t", "u", "v", "w", "x", "y", "z">>

Range(s) == {s[i] : i \in 1..Len(s)}
IsDigit(c) == c \in Range(DigitSeq)
IsUpper(c) == c \in Range(UpperSeq)
IsSpace(c) == c \in {" ", "\t", "\n"}
DigitVal(c) == (CHOOSE i \in 1..10 : DigitSeq[i] = c) - 1

SetMin(S) == CHOOSE x \in S : \A y \in S : x <= y
SetMax(S) == CHOOSE x \in S : \A y \in S : y <= x

\* JS truthiness of a string-or-null value: null, undefined and "" are falsy.
Truthy(s) == s /= NULL /\ s /= <<>>

\* String.prototype.trim
Trim(s) ==
    LET keep == {i \in 1..Len(s) : ~IsSpace(s[i])}
    IN  IF keep = {} THEN <<>> ELSE SubSeq(s, SetMin(keep), SetMax(keep))

\* String.prototype.toUpperCase
UpperChar(c) ==
    IF c \in Range(LowerSeq)
    THEN UpperSeq[CHOOSE i \in 1..26 : LowerSeq[i] = c]
    ELSE c
ToUpperCase(s) == [i \in 1..Len(s) |-> UpperChar(s[i])]

\* String.prototype.includes
Includes(s, sub) ==
    \E i \in 1..(Len(s) - Len(sub) + 1) : SubSeq(s, i, i + Len(sub) - 1) = sub

\* String(n).padStart(2, '0') for 0 <= n <= 99
Pad2(n) == <<DigitSeq[(n \div 10) + 1], DigitSeq[(n % 10) + 1]>>
\* String(year) for a four-digit year
Str4(n) == <<DigitSeq[(n \div 1000) + 1], DigitSeq[((n \div 100) % 10) + 1],
             DigitSeq[((n \div 10) % 10) + 1], DigitSeq[(n % 10) + 1]>>

\* the length of the longest prefix of s made of decimal digits
LeadingDigits(s) ==
    SetMax({n \in 0..Len(s) : \A j \in 1..n : IsDigit(s[j])})

RECURSIVE DigitsValue(_)
DigitsValue(s) ==
    IF s = <<>> THEN 0
    ELSE DigitsValue(SubSeq(s, 1, Len(s) - 1)) * 10 + DigitVal(s[Len(s)])

AllDigits(s) == \A i \in 1..Len(s) : IsDigit(s[i])

Drop(s, n) == SubSeq(s, n + 1, Len(s))

\* parseFloat: skip leading white space, then the longest prefix that is a
\* decimal literal (sign, digits, '.', digits); NaN when there is none.  The
\* value is kept in hundredths: digits after the second decimal are dropped.
ParseFloat(s) ==
    LET lead == {i \in 1..Len(s) : ~IsSpace(s[i])}
        t    == IF lead = {} THEN <<>> ELSE Drop(s, SetMin(lead) - 1)
        sgn  == IF Len(t) > 0 /\ t[1] = "-" THEN -1 ELSE 1
        body == IF Len(t) > 0 /\ t[1] \in {"-", "+"} THEN Drop(t, 1) ELSE t
        il   == LeadingDigits(body)
        rest == Drop(body, il)
        dot  == Len(rest) > 0 /\ rest[1] = "."
        frac == IF dot THEN SubSeq(rest, 2, 1 + LeadingDigits(Drop(rest, 1))) ELSE <<>>
        f2   == SubSeq(frac \o <<"0", "0">>, 1, 2)
    IN  IF il = 0 /\ Len(frac) = 0 THEN NaN
        ELSE Num(sgn * (DigitsValue(SubSeq(body, 1, il)) * 100 + DigitsValue(f2)))

IsNaN(x) == x.k = "nan"


-----------------------------------------------------------------------------
(* Date: time values, ECMAScript MakeDay / YearFromTime / MonthFromTime /   *)
(* DateFromTime, and the Date constructor applied to a string               *)

InvalidDate == [valid |-> FALSE, day |-> 0, ms |-> 0]
TimeValue(d, t) == [valid |-> TRUE, day |-> d, ms |-> t]

\* the day number of the civil date y-m-d (days since 1970-01-01)
DaysFromCivil(y, m, d) ==
    LET yy  == IF m <= 2 THEN y - 1 ELSE y
        era == yy \div 400
        yoe == yy - era * 400
        mp  == IF m > 2 THEN m - 3 ELSE m + 9
        doy == (153 * mp + 2) \div 5 + d - 1
        doe == yoe * 365 + yoe \div 4 - yoe \div 100 + doy
    IN  era * 146097 + doe - 719468

\* the civil date of day number n
CivilFromDays(n) ==
    LET z   == n + 719468
        era == z \div 146097
        doe == z - era * 146097
        yoe == (doe - doe \div 1460 + doe \div 36524 - doe \div 146096) \div 365
        doy == doe - (365 * yoe + yoe \div 4 - yoe \div 100)
        mp  == (5 * doy + 2) \div 153
        d   == doy - (153 * mp + 2) \div 5 + 1
        m   == IF mp < 10 THEN mp + 3 ELSE mp - 9
        y   == yoe + era * 400 + (IF m <= 2 THEN 1 ELSE 0)
    IN  [y |-> y, m |-> m, d |-> d]

\* MakeDay(year, month, date): a date beyond the month's end carries over
MakeDay(y, m, dt) == DaysFromCivil(y, m, 1) + dt - 1

\* setDate(getDate() + 1) without the carry into the next month
SetDateNoCarry(t) ==
    LET c == CivilFromDays(t.day)
    IN  TimeValue(DaysFromCivil(c.y, c.m, IF c.d >= 28 THEN 1 ELSE c.d + 1), t.ms)

\* Date.prototype.setDate(getDate() + 1)
SetDatePlusOne(t) ==
    LET c == CivilFromDays(t.day)
    IN  TimeValue(MakeDay(c.y, c.m, c.d + 1), t.ms)

\* setHours(h, m, s) without the fourth argument: the milliseconds stay
SetHoursKeepMs(t, h, m, s) == TimeValue(t.day, ((h * 60 + m) * 60 + s) * 1000 + (t.ms % 1000))

\* Date.prototype.setHours(h, m, s, 0)
SetHours(t, h, m, s) == TimeValue(t.day, ((h * 60 + m) * 60 + s) * 1000)

\* new Date(string).  Accepted: the ISO forms YYYY-MM-DD, YYYY-MM-DDTHH:MM and
\* YYYY-MM-DDTHH:MM:SS (read as local time), and, on a host whose fallback
\* parser takes it (lenient), "YYYY-MM-DD HH:MM".  Anything else: Invalid Date.
ParseDate(s, lenient) ==
    LET dateOk  == /\ Len(s) >= 10
                   /\ AllDigits(SubSeq(s, 1, 4)) /\ s[5] = "-"
                   /\ AllDigits(SubSeq(s, 6, 7)) /\ s[8] = "-"
                   /\ AllDigits(SubSeq(s, 9, 10))
        hmOk    == /\ Len(s) >= 16
                   /\ AllDigits(SubSeq(s, 12, 13)) /\ s[14] = ":"
                   /\ AllDigits(SubSeq(s, 15, 16))
        secOk   == /\ Len(s) = 19 /\ s[17] = ":" /\ AllDigits(SubSeq(s, 18, 19))
        shape   == IF ~dateOk THEN "none"
                   ELSE IF Len(s) = 10 THEN "date"
                   ELSE IF hmOk /\ s[11] = "T" /\ (Len(s) = 16 \/ secOk) THEN "iso"
                   ELSE IF hmOk /\ s[11] = " " /\ Len(s) = 16 /\ lenient THEN "legacy"
                   ELSE "none"
        y       == DigitsValue(SubSeq(s, 1, 4))
        mo      == DigitsValue(SubSeq(s, 6, 7))
        d       == DigitsValue(SubSeq(s, 9, 10))
        hh      == IF shape = "date" THEN 0 ELSE DigitsValue(SubSeq(s, 12, 13))
        mi      == IF shape = "date" THEN 0 ELSE DigitsValue(SubSeq(s, 15, 16))
        ss      == IF Len(s) = 19 THEN DigitsValue(SubSeq(s, 18, 19)) ELSE 0
    IN  IF shape = "none" THEN InvalidDate
        ELSE IF ~(mo \in 1..12 /\ d \in 1..31 /\ hh < 24 /\ mi < 60 /\ ss < 60)
        THEN InvalidDate
        ELSE TimeValue(MakeDay(y, mo, d), ((hh * 60 + mi) * 60 + ss) * 1000)

\* `${year}-${month}-${day} ${hours}:${minutes}` of xmlService.ts
FormatDate(t) ==
    LET c  == CivilFromDays(t.day)
        hh == t.ms \div 3600000
        mi == (t.ms \div 60000) % 60
    IN  Str4(c.y) \o <<"-">> \o Pad2(c.m) \o <<"-">> \o Pad2(c.d) \o <<" ">>
        \o Pad2(hh) \o <<":">> \o Pad2(mi)

-----------------------------------------------------------------------------
(* DOM: Document / Element *)

RECURSIVE IsDescendant(_, _, _)
\* element i lies below ctx (ctx = 0: the document itself)
IsDescendant(nodes, i, ctx) ==
    IF ctx = 0 THEN TRUE
    ELSE IF nodes[i].parent = 0 THEN FALSE
    ELSE nodes[i].parent = ctx \/ IsDescendant(nodes, nodes[i].parent, ctx)

RECURSIVE SortedSeq(_)
SortedSeq(S) ==
    IF S = {} THEN <<>>
    ELSE LET m == SetMin(S) IN <<m>> \o SortedSeq(S \ {m})

\* ctx.getElementsByTagName(tag): the descendants with that tag, in document order
GetElementsByTagName(nodes, ctx, tag) ==
    SortedSeq({i \in 1..Len(nodes) : nodes[i].tag = tag /\ IsDescendant(nodes, i, ctx)})

RECURSIVE ConcatText(_, _)
ConcatText(nodes, idx) ==
    IF idx = <<>> THEN <<>>
    ELSE nodes[Head(idx)].text \o ConcatText(nodes, Tail(idx))

\* element.textContent: the text of the element and of all its descendants
TextContent(nodes, i) ==
    ConcatText(nodes, SortedSeq({j \in 1..Len(nodes) : j = i \/ IsDescendant(nodes, j, i)}))

\* collection[0]?.textContent of the first element with the tag below ctx
FirstText(nodes, ctx, tag) ==
    LET c == GetElementsByTagName(nodes, ctx, tag)
    IN  IF Len(c) = 0 THEN NULL ELSE TextContent(nodes, c[1])

\* DOMParser.parseFromString(text, "text/xml"): text that is not well-formed XML
\* yields a document holding a parsererror element
ParserErrorDoc == <<[tag |-> "parsererror", parent |-> 0, text |-> <<>>, xCampo |-> NULL]>>
ParseFromString(content) ==
    IF content.wellFormed THEN content.nodes ELSE ParserErrorDoc


-----------------------------------------------------------------------------
(* services/xmlService.ts: parseInvoiceXml *)

NoError == [code |-> "none", missing |-> {}]
ErrInvalidXml == [code |-> "invalidXml", missing |-> {}]     \* "Formato de arquivo XML inválido."
ErrNotNumeric == [code |-> "notNumeric", missing |-> {}]     \* "Peso Líquido não é um número válido."
ErrReadFailure == [code |-> "readFailure", missing |-> {}]   \* "Falha ao ler o arquivo."
\* "Dados obrigatórios faltando: ..." with the fields it lists
ErrMissing(fields) == [code |-> "missing", missing |-> fields]

InvoiceIdTags == <<"cCT", "nCT", "InvoiceID", "NF", "CT", "nNF", "id", "number">>
DateTags == <<"dhEmi", "dEmi", "IssueDate", "Date">>
WeightTags == <<"PesoReal", "pesoReal", "PESO_REAL", "NetWeight", "Weight", "pesoL",
                "Net", "qCarga">>
CteProcPath == <<"cteProc", "CTe", "infCte", "ide", "dhEmi">>
CtePath == <<"CTe", "infCte", "ide", "dhEmi">>

\* a tag whose first element has non-empty textContent
TagHasValue(nodes, tag) ==
    LET c == GetElementsByTagName(nodes, 0, tag)
    IN  Len(c) > 0 /\ TextContent(nodes, c[1]) /= <<>>

\* getTagValue without the test of textContent: the first tag with an element wins
GetTagValueFirstPresent(nodes, tags) ==
    LET hits == {k \in 1..Len(tags) : Len(GetElementsByTagName(nodes, 0, tags[k])) > 0}
    IN  IF hits = {} THEN NULL
        ELSE Trim(FirstText(nodes, 0, tags[SetMin(hits)]))

\* getTagValue(tags): for each tag in order, the trimmed text of its first
\* element if that text is not empty; null when no tag qualifies
GetTagValue(nodes, tags) ==
    LET hits == {k \in 1..Len(tags) : TagHasValue(nodes, tags[k])}
    IN  IF hits = {} THEN NULL
        ELSE Trim(FirstText(nodes, 0, tags[SetMin(hits)]))

RECURSIVE WalkPath(_, _, _)
WalkPath(nodes, ctx, parts) ==
    IF parts = <<>> THEN ctx
    ELSE LET c == GetElementsByTagName(nodes, ctx, Head(parts))
         IN  IF Len(c) = 0 THEN -1 ELSE WalkPath(nodes, c[1], Tail(parts))

\* getTagValueByPath(doc, path): `current.textContent?.trim() || null`
GetTagValueByPath(nodes, parts) ==
    LET end == WalkPath(nodes, 0, parts)
    IN  IF end = -1 THEN NULL
        ELSE IF Trim(TextContent(nodes, end)) = <<>> THEN NULL
        ELSE Trim(TextContent(nodes, end))

\* lines 156-168
InvoiceDateRaw(nodes) ==
    LET a == GetTagValueByPath(nodes, CteProcPath)
        b == IF Truthy(a) THEN a ELSE GetTagValueByPath(nodes, CtePath)
    IN  IF Truthy(b) THEN b ELSE GetTagValue(nodes, DateTags)

\* lines 170-185.  The extractor itself formats through new Date(raw), whose
\* parse of the ISO forms does not depend on the host.
InvoiceDateOf(nodes, lenient) ==
    LET raw == InvoiceDateRaw(nodes)
        d   == IF Truthy(raw) THEN ParseDate(raw, lenient) ELSE InvalidDate
    IN  IF ~Truthy(raw) THEN NULL
        ELSE IF d.valid THEN FormatDate(d)
        ELSE raw

IsSep(c) == c \in {"-", "."}

\* filename.match(/(\d{4})[-.](\d{2})[-.](\d{2})/): the start of the first match, 0 if none
MatchYyyyMmDd(name) ==
    LET at == {i \in 1..(Len(name) - 9) :
                 /\ AllDigits(SubSeq(name, i, i + 3)) /\ IsSep(name[i + 4])
                 /\ AllDigits(SubSeq(name, i + 5, i + 6)) /\ IsSep(name[i + 7])
                 /\ AllDigits(SubSeq(name, i + 8, i + 9))}
    IN  IF at = {} THEN 0 ELSE SetMin(at)

\* filename.match(/(\d{2})[-.](\d{2})[-.](\d{4})/)
MatchDdMmYyyy(name) ==
    LET at == {i \in 1..(Len(name) - 9) :
                 /\ AllDigits(SubSeq(name, i, i + 1)) /\ IsSep(name[i + 2])
                 /\ AllDigits(SubSeq(name, i + 3, i + 4)) /\ IsSep(name[i + 5])
                 /\ AllDigits(SubSeq(name, i + 6, i + 9))}
    IN  IF at = {} THEN 0 ELSE SetMin(at)

Noon == <<" ", "1", "2", ":", "0", "0">>

\* the day-first pattern tried before the year-first one
FilenameDateDayFirstWins(name) ==
    LET a == MatchYyyyMmDd(name)
        b == MatchDdMmYyyy(name)
    IN  IF b /= 0
        THEN SubSeq(name, b + 6, b + 9) \o <<"-">> \o SubSeq(name, b + 3, b + 4) \o <<"-">>
             \o SubSeq(name, b, b + 1) \o Noon
        ELSE IF a /= 0
        THEN SubSeq(name, a, a + 3) \o <<"-">> \o SubSeq(name, a + 5, a + 6) \o <<"-">>
             \o SubSeq(name, a + 8, a + 9) \o Noon
        ELSE NULL

\* lines 187-203
FilenameDateOf(name) ==
    LET a == MatchYyyyMmDd(name)
        b == MatchDdMmYyyy(name)
    IN  IF a /= 0
        THEN SubSeq(name, a, a + 3) \o <<"-">> \o SubSeq(name, a + 5, a + 6) \o <<"-">>
             \o SubSeq(name, a + 8, a + 9) \o Noon
        ELSE IF b /= 0
        THEN SubSeq(name, b + 6, b + 9) \o <<"-">> \o SubSeq(name, b + 3, b + 4) \o <<"-">>
             \o SubSeq(name, b, b + 1) \o Noon
        ELSE NULL

PesoReal == <<"P", "E", "S", "O", " ", "R", "E", "A", "L">>
Placa == <<"P", "L", "A", "C", "A">>

\* item.getElementsByTagName("tpMed")[0]?.textContent?.trim().toUpperCase()
TpMedOf(nodes, item) ==
    LET t == FirstText(nodes, item, "tpMed")
    IN  IF t = NULL THEN NULL ELSE ToUpperCase(Trim(t))

\* item.getElementsByTagName("qCarga")[0]?.textContent?.trim()
QCargaOf(nodes, item) ==
    LET t == FirstText(nodes, item, "qCarga")
    IN  IF t = NULL THEN NULL ELSE Trim(t)

\* the test of line 217: tpMed === "PESO REAL" && qCarga
InfQMatches(nodes, item) ==
    TpMedOf(nodes, item) = PesoReal /\ Truthy(QCargaOf(nodes, item))

\* the two strategies in the other order: generic tags first
NetWeightStringGenericFirst(nodes) ==
    LET infQList == GetElementsByTagName(nodes, 0, "infQ")
        hits     == {i \in 1..Len(infQList) : InfQMatches(nodes, infQList[i])}
        generic  == GetTagValue(nodes, WeightTags)
    IN  IF Truthy(generic) THEN generic
        ELSE IF hits = {} THEN NULL ELSE QCargaOf(nodes, infQList[SetMin(hits)])

\* lines 205-227
NetWeightString(nodes) ==
    LET infQList == GetElementsByTagName(nodes, 0, "infQ")
        hits     == {i \in 1..Len(infQList) : InfQMatches(nodes, infQList[i])}
        ctx      == IF hits = {} THEN NULL ELSE QCargaOf(nodes, infQList[SetMin(hits)])
    IN  IF Truthy(ctx) THEN ctx ELSE GetTagValue(nodes, WeightTags)

\* the pattern anchored at both ends: /^[A-Z]{3}[0-9][0-9A-Z][0-9]{2}$/
MatchPlateWhole(s) ==
    IF /\ Len(s) = 7
       /\ IsUpper(s[1]) /\ IsUpper(s[2]) /\ IsUpper(s[3]) /\ IsDigit(s[4])
       /\ (IsDigit(s[5]) \/ IsUpper(s[5])) /\ IsDigit(s[6]) /\ IsDigit(s[7])
    THEN s ELSE NULL

\* xTexto.match(/[A-Z]{3}[0-9][0-9A-Z][0-9]{2}/): match[0], NULL if no match
MatchPlate(s) ==
    LET at == {i \in 1..(Len(s) - 6) :
                 /\ IsUpper(s[i]) /\ IsUpper(s[i + 1]) /\ IsUpper(s[i + 2])
                 /\ IsDigit(s[i + 3])
                 /\ (IsDigit(s[i + 4]) \/ IsUpper(s[i + 4]))
                 /\ IsDigit(s[i + 5]) /\ IsDigit(s[i + 6])}
    IN  IF at = {} THEN NULL ELSE SubSeq(s, SetMin(at), SetMin(at) + 6)

\* item.getAttribute("xCampo")?.toUpperCase() || ""
XCampoOf(nodes, item) ==
    IF nodes[item].xCampo = NULL THEN <<>> ELSE ToUpperCase(nodes[item].xCampo)

\* item.getElementsByTagName("xTexto")[0]?.textContent || ""
XTextoOf(nodes, item) ==
    LET t == FirstText(nodes, item, "xTexto")
    IN  IF t = NULL THEN <<>> ELSE t

\* lines 229-250
ExtractedPlateOf(nodes) ==
    LET obs  == GetElementsByTagName(nodes, 0, "ObsCont")
        hits == {i \in 1..Len(obs) :
                   /\ Includes(XCampoOf(nodes, obs[i]), Placa)
                   /\ MatchPlate(XTextoOf(nodes, obs[i])) /= NULL}
    IN  IF hits = {} THEN NULL ELSE MatchPlate(XTextoOf(nodes, obs[SetMin(hits)]))

Result(id, w, date, plate, fdate, err) ==
    [invoiceId |-> id, netWeight |-> w, invoiceDate |-> date,
     extractedPlate |-> plate, filenameDate |-> fdate, error |-> err]

\* the return of lines 89-95, which leaves filenameDate out
MissingResultNoFilenameDate(invoiceId, netWeightString, invoiceDate, extractedPlate, filenameDate) ==
    Result(IF Truthy(invoiceId) THEN invoiceId ELSE NULL,
           IF Truthy(netWeightString) THEN ParseFloat(netWeightString) ELSE NullNum,
           IF Truthy(invoiceDate) THEN invoiceDate ELSE NULL,
           extractedPlate, NULL,
           ErrMissing((IF Truthy(invoiceId) THEN {} ELSE {"invoiceId"})
                      \cup (IF Truthy(netWeightString) THEN {} ELSE {"netWeight"})))

\* lines 252-265: the return taken when invoiceId or netWeightString is falsy
MissingResult(invoiceId, netWeightString, invoiceDate, extractedPlate, filenameDate) ==
    Result(IF Truthy(invoiceId) THEN invoiceId ELSE NULL,
           IF Truthy(netWeightString) THEN ParseFloat(netWeightString) ELSE NullNum,
           IF Truthy(invoiceDate) THEN invoiceDate ELSE NULL,
           extractedPlate, filenameDate,
           ErrMissing((IF Truthy(invoiceId) THEN {} ELSE {"invoiceId"})
                      \cup (IF Truthy(netWeightString) THEN {} ELSE {"netWeight"})))

\* the NaN return without its error
NotNumericResultNoError(invoiceId) ==
    Result(invoiceId, NullNum, NULL, NULL, NULL, NoError)

\* lines 267-270: the return taken when parseFloat gives NaN
NotNumericResult(invoiceId) ==
    Result(invoiceId, NullNum, NULL, NULL, NULL, ErrNotNumeric)

\* lines 112-278.  f is the File: its name, whether file.text() resolves, and its
\* content; a rejected read is caught (lines 274-277).
ParseInvoiceXml(f, lenient) ==
    IF ~f.readable THEN Result(NULL, NullNum, NULL, NULL, NULL, ErrReadFailure)
    ELSE
    LET nodes == ParseFromString(f.content)
        invoiceId == GetTagValue(nodes, InvoiceIdTags)
        invoiceDate == InvoiceDateOf(nodes, lenient)
        filenameDate == FilenameDateOf(f.name)
        netWeightString == NetWeightString(nodes)
        extractedPlate == ExtractedPlateOf(nodes)
    IN  IF Len(GetElementsByTagName(nodes, 0, "parsererror")) > 0
        THEN Result(NULL, NullNum, NULL, NULL, NULL, ErrInvalidXml)
        ELSE IF ~Truthy(invoiceId) \/ ~Truthy(netWeightString)
        THEN MissingResult(invoiceId, netWeightString, invoiceDate, extractedPlate,
                           filenameDate)
        ELSE IF IsNaN(ParseFloat(netWeightString))
        THEN NotNumericResult(invoiceId)
        ELSE Result(invoiceId, ParseFloat(netWeightString), invoiceDate, extractedPlate,
                    filenameDate, NoError)


-----------------------------------------------------------------------------
(* Inputs: texts, XML fragments and the files assembled from them *)

TxtEmpty == <<>>
TxtBlank == <<" ">>
Txt77 == <<"7", "7">>
Txt123 == <<" ", "1", "2", "3", " ">>
Txt12345 == <<"1", "2", "3", "4", "5">>
Txt500 == <<"5", "0", "0">>
Txt20 == <<"2", "0">>
TxtAbc == <<"a", "b", "c">>
Txt50000 == <<"5", "0", "0", "0", "0">>
TxtPesoReal == <<"P", "E", "S", "O", " ", "R", "E", "A", "L">>
TxtPesoRealLower == <<" ", "p", "e", "s", "o", " ", "r", "e", "a", "l", " ">>
TxtUnidade == <<"U", "N", "I", "D", "A", "D", "E">>
TxtPlateOk == <<"A", "B", "C", "1", "D", "2", "3">>
TxtPlateShort == <<"A", "B", "1", "2", "3", "4", "5">>
TxtPlateLong == <<"A", "B", "C", "1", "2", "3", "4", "5">>
TxtCampoPlaca == <<"P", "l", "a", "c", "a">>
TxtCampoPlacas == <<"P", "L", "A", "C", "A", "S">>
TxtDhEmi == <<"2", "0", "2", "4", "-", "0", "1", "-", "0", "1", "T", "1", "0", ":", "0", "0", ":", "0", "0">>
TxtOntem == <<"o", "n", "t", "e", "m">>
NameYearFirst == <<"n", "f", "_", "2", "0", "2", "4", "-", "0", "3", "-", "1", "5", ".", "x", "m", "l">>
NameDayFirst == <<"n", "f", "_", "1", "5", "-", "0", "3", "-", "2", "0", "2", "4", ".", "x", "m", "l">>
NameNoDate == <<"n", "o", "t", "a", ".", "x", "m", "l">>
\* a day-first date followed by a year-first date
NameBoth ==
    <<"1", "5", ".", "0", "3", ".", "2", "0", "2", "4", "_",
      "2", "0", "2", "3", "-", "0", "1", "-", "0", "2", ".", "x", "m", "l">>
\* a day-first date whose text also holds a year-first match, two characters earlier
NameOverlap ==
    <<"2", "0", "1", "5", "-", "0", "3", "-", "2", "0", "2", "4", ".", "x", "m", "l">>

El(tag, parent, text) == [tag |-> tag, parent |-> parent, text |-> text, xCampo |-> NULL]

\* <tag>text</tag>
Leaf(tag, text) == <<El(tag, 0, text)>>
\* <infQ><tpMed>tp</tpMed><qCarga>q</qCarga></infQ>
InfQ(tp, q) == <<El("infQ", 0, <<>>), El("tpMed", 1, tp), El("qCarga", 1, q)>>
\* <ObsCont xCampo="campo"><xTexto>texto</xTexto></ObsCont>
ObsCont(campo, texto) ==
    <<[tag |-> "ObsCont", parent |-> 0, text |-> <<>>, xCampo |-> campo],
      El("xTexto", 1, texto)>>

IdFragments ==
    {Leaf("nCT", Txt77), Leaf("nCT", TxtEmpty), Leaf("nNF", Txt123), Leaf("cCT", TxtBlank)}
WeightFragments ==
    {InfQ(TxtPesoReal, Txt12345), InfQ(TxtPesoRealLower, Txt500), InfQ(TxtUnidade, Txt20),
     InfQ(TxtPesoReal, TxtEmpty), Leaf("Weight", TxtAbc), Leaf("PesoReal", Txt50000)}
PlateFragments ==
    {ObsCont(TxtCampoPlaca, TxtPlateOk), ObsCont(TxtCampoPlacas, TxtPlateShort),
     ObsCont(TxtCampoPlacas, TxtPlateLong)}
DateFragments ==
    {Leaf("dhEmi", TxtDhEmi), Leaf("dhEmi", TxtOntem)}
Fragments == IdFragments \cup WeightFragments \cup PlateFragments \cup DateFragments

\* the most fragments a document is assembled from
MaxFrags == 3

\* a fragment placed below the root element, after the off elements already there
Shift(fr, off) ==
    [i \in 1..Len(fr) |-> [fr[i] EXCEPT !.parent = IF @ = 0 THEN 1 ELSE @ + off]]

RECURSIVE Assemble(_, _)
Assemble(nodes, frs) ==
    IF frs = <<>> THEN nodes
    ELSE Assemble(nodes \o Shift(Head(frs), Len(nodes)), Tail(frs))

RootOnly == <<El("doc", 0, <<>>)>>
Documents ==
    {Assemble(RootOnly, frs) : frs \in UNION {[1..n -> Fragments] : n \in 0..MaxFrags}}

FileNames == {NameYearFirst, NameDayFirst, NameNoDate, NameBoth, NameOverlap}
XmlFile(name, nodes) ==
    [name |-> name, readable |-> TRUE, content |-> [wellFormed |-> TRUE, nodes |-> nodes]]
MalformedFile ==
    [name |-> NameNoDate, readable |-> TRUE, content |-> [wellFormed |-> FALSE, nodes |-> <<>>]]
UnreadableFile ==
    [name |-> NameNoDate, readable |-> FALSE, content |-> [wellFormed |-> FALSE, nodes |-> <<>>]]
-----------------------------------------------------------------------------
(* constants.ts: MOCK_TRUCKS.  truckId is compared for equality only and is a   *)
(* plain string ('' is ""); weights of the catalog are in kg.                   *)

PlateTruck == <<"T", "R", "U", "C", "K">>
PlateCarreta == <<"C", "A", "R", "R", "E", "T", "A">>
PlateGeneric == <<"G", "E", "N", "E", "R", "I", "C", "-", "0", "1">>
MOCK_TRUCKS ==
    <<[truckId |-> "TRK-STD-01", plateNumber |-> PlateTruck, tareWeight |-> 9960,
       maxCapacity |-> 26000],
      [truckId |-> "CRT-HVY-01", plateNumber |-> PlateCarreta, tareWeight |-> 9900,
       maxCapacity |-> 50000],
      [truckId |-> "TRK-GEN-03", plateNumber |-> PlateGeneric, tareWeight |-> 5000,
       maxCapacity |-> 10000]>>

-----------------------------------------------------------------------------
(* types.ts: App *)

NoCall == [called |-> FALSE]
NoTicket == [present |-> FALSE]
NoData == [present |-> FALSE]          \* invoiceData === null
\* trucks.find(...) === undefined
NoTruck == [truckId |-> "", plateNumber |-> <<>>, tareWeight |-> 0, maxCapacity |-> 0]
NoFeedback == [kind |-> "none"]        \* feedbackMessage === null
NoId == -1                              \* a ticket without id

\* trucks.find(pred): the first truck of the list with the given truckId
FindById(list, id) ==
    LET at == {i \in 1..Len(list) : list[i].truckId = id}
    IN  IF at = {} THEN NoTruck ELSE list[SetMin(at)]

\* trucks.find(t => t.plateNumber === targetPlate)
FindByPlate(list, plate) ==
    LET at == {i \in 1..Len(list) : list[i].plateNumber = plate}
    IN  IF at = {} THEN NoTruck ELSE list[SetMin(at)]

\* line 74
SelectedTruck == FindById(trucks, selectedTruckId)

\* line 79: !!selectedTruck && !!invoiceData?.invoiceId && !invoiceData.error
CanIssue ==
    /\ SelectedTruck /= NoTruck
    /\ invoiceData /= NoData
    /\ Truthy(invoiceData.invoiceId)
    /\ invoiceData.error = NoError

\* line 346: the button is enabled
ButtonEnabled == CanIssue /\ ~isProcessing

\* line 131 without the tests of canIssue and selectedTruck
IssueAllowedAnyTruck ==
    /\ invoiceData /= NoData
    /\ Truthy(invoiceData.invoiceId)
    /\ invoiceData.netWeight /= NullNum

\* line 131, negated: the handler goes on
IssueAllowed ==
    /\ CanIssue
    /\ SelectedTruck /= NoTruck
    /\ invoiceData /= NoData
    /\ Truthy(invoiceData.invoiceId)
    /\ invoiceData.netWeight /= NullNum

\* lines 101-107: the category of a weight (in hundredths of a kg)
\* the threshold taken as exclusive
TargetPlateBelow(w) == IF w.v < 15000 * 100 THEN PlateTruck ELSE PlateCarreta
TargetPlate(w) == IF w.v <= 15000 * 100 THEN PlateTruck ELSE PlateCarreta

\* the resolution of Math.random() in the draw of the time: r = k / TimeRandRes
TimeRandRes == 40000
\* the resolution of Math.random() in the draw of the weight factor: r = j / FactorRes
FactorRes == 16

StartTotalSeconds == 7 * 3600 + 12 * 60 + 50
EndTotalSeconds == 15 * 3600 + 45 * 60 + 50

\* line 165: Math.floor(Math.random() * (end - start + 1)) + start
RandomSeconds(k) ==
    (k * (EndTotalSeconds - StartTotalSeconds + 1)) \div TimeRandRes + StartTotalSeconds

\* lines 140-149: the date of the ticket before the time is set
TicketDate(data, clock, lenient) ==
    LET xmlDate == IF Truthy(data.invoiceDate) THEN ParseDate(data.invoiceDate, lenient)
                   ELSE InvalidDate
    IN  IF xmlDate.valid THEN SetDatePlusOne(xmlDate) ELSE TimeValue(clock.day, clock.ms)

\* lines 165-175
IssueTimestamp(data, clock, lenient, k) ==
    LET randomSeconds == RandomSeconds(k)
        h == randomSeconds \div 3600
        m == (randomSeconds % 3600) \div 60
        s == randomSeconds % 60
    IN  SetHours(TicketDate(data, clock, lenient), h, m, s)

\* lines 181-187: clampedDelta as a fraction, in hundredths of a kg, over the
\* denominator 1000 * FactorRes.  variationFactor - 1 = (4j - 2 FactorRes) / (1000 FactorRes)
DeltaDenom == 1000 * FactorRes
SetMaxOf2(a, b) == IF a >= b THEN a ELSE b
SetMinOf2(a, b) == IF a <= b THEN a ELSE b
\* the clamp at 200 kg instead of 20 kg
ClampedDeltaWide(n, j) ==
    LET rawDelta == n * (4 * j - 2 * FactorRes)
    IN  SetMaxOf2(-200 * 100 * DeltaDenom, SetMinOf2(200 * 100 * DeltaDenom, rawDelta))
ClampedDelta(n, j) ==
    LET rawDelta == n * (4 * j - 2 * FactorRes)
    IN  SetMaxOf2(-20 * 100 * DeltaDenom, SetMinOf2(20 * 100 * DeltaDenom, rawDelta))

\* lines 190-194: Math.round(netWeight + clampedDelta + tareWeight), in kg.
\* Math.round(x) is floor(x + 1/2).
RandomizedGrossWeight(n, tare, j) ==
    LET base == n + tare * 100
        q    == base \div 100
        rem  == base % 100
    IN  q + (rem * DeltaDenom + ClampedDelta(n, j) + 50 * DeltaDenom) \div (100 * DeltaDenom)

\* lines 196-206
NewTicket(data, truck, clock, lenient, k, j) ==
    [id |-> NoId,
     invoiceId |-> data.invoiceId,
     netWeightInvoice |-> data.netWeight,
     truckId |-> truck.truckId,
     truckPlateNumber |-> IF Truthy(data.extractedPlate) THEN data.extractedPlate
                          ELSE truck.plateNumber,
     truckTareWeight |-> truck.tareWeight,
     grossWeightCalculated |-> RandomizedGrossWeight(data.netWeight.v, truck.tareWeight, j),
     issueTimestamp |-> IssueTimestamp(data, clock, lenient, k),
     ticketStatus |-> "Printed"]

\* the most handleFileUpload calls awaiting parseInvoiceXml at once
MaxUploads == 2
\* the most tickets issued in a run
MaxIssued == 2

\* the files the user uploads to the form
LightFile ==
    XmlFile(NameDayFirst, Assemble(RootOnly, <<Leaf("nCT", Txt77), InfQ(TxtPesoReal, Txt12345),
                                               Leaf("dhEmi", TxtDhEmi)>>))
HeavyFile ==
    XmlFile(NameNoDate, Assemble(RootOnly, <<Leaf("nNF", Txt123), Leaf("PesoReal", Txt50000),
                                             ObsCont(TxtCampoPlaca, TxtPlateOk)>>))
NoIdFile ==
    XmlFile(NameNoDate, Assemble(RootOnly, <<InfQ(TxtPesoReal, Txt12345)>>))
AppFiles == <<LightFile, HeavyFile, NoIdFile>>

\* documents whose weight lies at and around the threshold of line 103
Txt15000 == <<"1", "5", "0", "0", "0">>
Txt15000Half == <<"1", "5", "0", "0", "0", ".", "5">>
Txt15001 == <<"1", "5", "0", "0", "1">>
Txt60000 == <<"6", "0", "0", "0", "0">>
WeightFile(w) == XmlFile(NameNoDate, Assemble(RootOnly, <<Leaf("nCT", Txt77), InfQ(TxtPesoReal, w)>>))
SelectFiles ==
    AppFiles \o <<WeightFile(Txt15000), WeightFile(Txt15000Half), WeightFile(Txt15001),
                  WeightFile(Txt60000), MalformedFile>>

\* parseInvoiceXml(file) for each of these files, on either kind of host
ParsedAppFile ==
    [f \in 1..Len(SelectFiles) |-> [l \in BOOLEAN |-> ParseInvoiceXml(SelectFiles[f], l)]]

RemoveAt(s, i) == SubSeq(s, 1, i - 1) \o SubSeq(s, i + 1, Len(s))

\* lines 58-71: fetchTrucks() resolves (mockFirestore.ts lines 10-17)
LoadData ==
    /\ fetchPending
    /\ fetchPending' = FALSE
    /\ trucks' = MOCK_TRUCKS
    /\ loadingTrucks' = FALSE
    /\ UNCHANGED <<file, parsed, selectedTruckId, invoiceData, uploadError, isProcessing,
                   lastPrintedTicket, feedbackMessage, showPreviewModal, uploads, saves, saveCalled,
                   store, now, lenientHost, lastIssue, nIssued>>

\* lines 82-93: handleFileUpload up to the await, on the f-th of the files; the
\* continuation keeps the trucks of the render the handler belongs to
HandleFileUpload(f) ==
    /\ Len(uploads) < MaxUploads
    /\ uploadError' = NoError
    /\ invoiceData' = NoData
    /\ isProcessing' = TRUE
    /\ uploads' = Append(uploads, [file |-> f, trucks |-> trucks])
    /\ UNCHANGED <<file, parsed, trucks, loadingTrucks, selectedTruckId, lastPrintedTicket,
                   feedbackMessage, showPreviewModal, fetchPending, saves, saveCalled, store, now,
                   lenientHost, lastIssue, nIssued>>

\* lines 93-127: parseInvoiceXml has resolved for the i-th upload in flight
UploadResolved(i) ==
    \E result \in {ParsedAppFile[uploads[i].file][lenientHost]} :
    \E auto \in {IF result.netWeight.k = "num"
                 THEN FindByPlate(uploads[i].trucks, TargetPlate(result.netWeight))
                 ELSE NoTruck} :
        /\ uploads' = RemoveAt(uploads, i)
        /\ isProcessing' = FALSE
        /\ IF result.error /= NoError
           THEN /\ uploadError' = result.error
                /\ UNCHANGED <<invoiceData, selectedTruckId, feedbackMessage>>
           ELSE /\ invoiceData' = [result EXCEPT !.error = NoError]
                /\ UNCHANGED uploadError
                /\ IF result.netWeight = NullNum
                   THEN UNCHANGED <<selectedTruckId, feedbackMessage>>
                   ELSE IF auto /= NoTruck
                   THEN /\ selectedTruckId' = auto.truckId
                        /\ feedbackMessage' = [kind |-> "autoSelected"]
                   ELSE /\ UNCHANGED selectedTruckId
                        /\ feedbackMessage' = [kind |-> "autoSelectFailed"]
        /\ UNCHANGED <<file, parsed, trucks, loadingTrucks, lastPrintedTicket,
                       showPreviewModal, fetchPending, saves, saveCalled, store, now, lenientHost,
                       lastIssue, nIssued>>

\* lines 130-209: handleIssueTicket up to the await, with the time drawn among
\* timeDraws and the factor among factorDraws.  The handler runs on a click of the
\* enabled button, or is called while canIssue is false; the call that line 131
\* turns away returns without a word and changes nothing.
HandleIssueTicket(timeDraws, factorDraws) ==
    /\ ButtonEnabled \/ ~CanIssue
    /\ nIssued < MaxIssued
    /\ IF ~IssueAllowed
       THEN /\ lastIssue' = "returned"
            /\ UNCHANGED <<isProcessing, feedbackMessage, saves, saveCalled, nIssued>>
       ELSE \E k \in timeDraws, j \in factorDraws :
              LET t == NewTicket(invoiceData, SelectedTruck, now, lenientHost, k, j)
              IN  /\ isProcessing' = TRUE
                  /\ feedbackMessage' = NoFeedback
                  /\ saves' = Append(saves, t)
                  /\ saveCalled' = Append(saveCalled, now)
                  /\ nIssued' = nIssued + 1
                  /\ lastIssue' = "ticket"
    /\ UNCHANGED <<file, parsed, trucks, loadingTrucks, selectedTruckId, invoiceData,
                   uploadError, lastPrintedTicket, showPreviewModal, fetchPending, uploads,
                   store, now, lenientHost>>

\* mockFirestore.ts line 32: Date.now().toString().slice(-6), the last six digits
\* of the clock in ms (86400000 * day + ms, reduced modulo 10^6)
\* mockFirestore.ts line 43: the write delay of saveTicket, in ms
SaveDelay == 800
\* setTimeout(.., 800): the callback runs no sooner than 800 ms after the call
TimerFired(called, clock) ==
    (clock.day - called.day) * (24 * 60 * 60 * 1000) + clock.ms - called.ms >= SaveDelay

TicketIdAt(clock) == ((clock.day % 5) * 400000 + clock.ms) % 1000000

\* mockFirestore.ts lines 22-45 and types.ts lines 209-212, 216-217: saveTicket
\* resolves for the i-th save in flight
SaveResolved(i) ==
    LET newTicket == [saves[i] EXCEPT !.id = TicketIdAt(now)]
    IN  /\ TimerFired(saveCalled[i], now)
        /\ saves' = RemoveAt(saves, i)
        /\ saveCalled' = RemoveAt(saveCalled, i)
        /\ store' = Append(store, newTicket)
        /\ lastPrintedTicket' = newTicket
        /\ showPreviewModal' = TRUE
        /\ feedbackMessage' = [kind |-> "saved"]
        /\ isProcessing' = FALSE
        /\ UNCHANGED <<file, parsed, trucks, loadingTrucks, selectedTruckId, invoiceData,
                       uploadError, fetchPending, uploads, now, lenientHost, lastIssue,
                       nIssued>>

\* mockFirestore.ts lines 40-42 and types.ts lines 213-217: localStorage throws and
\* saveTicket rejects
SaveRejected(i) ==
    /\ TimerFired(saveCalled[i], now)
    /\ saves' = RemoveAt(saves, i)
    /\ saveCalled' = RemoveAt(saveCalled, i)
    /\ feedbackMessage' = [kind |-> "saveFailed"]
    /\ isProcessing' = FALSE
    /\ UNCHANGED <<file, parsed, trucks, loadingTrucks, selectedTruckId, invoiceData,
                   uploadError, lastPrintedTicket, showPreviewModal, fetchPending, uploads,
                   store, now, lenientHost, lastIssue, nIssued>>

\* lines 245-252
HandleReset ==
    /\ invoiceData' = NoData
    /\ selectedTruckId' = ""
    /\ uploadError' = NoError
    /\ feedbackMessage' = NoFeedback
    /\ lastPrintedTicket' = NoTicket
    /\ showPreviewModal' = FALSE
    /\ UNCHANGED <<file, parsed, trucks, loadingTrucks, isProcessing, fetchPending, uploads,
                   saves, saveCalled, store, now, lenientHost, lastIssue, nIssued>>

\* lines 385, 400: onClick={() => setShowPreviewModal(false)}
ClosePreview ==
    /\ showPreviewModal
    /\ showPreviewModal' = FALSE
    /\ UNCHANGED <<file, parsed, trucks, loadingTrucks, selectedTruckId, invoiceData,
                   uploadError, isProcessing, lastPrintedTicket, feedbackMessage,
                   fetchPending, uploads, saves, saveCalled, store, now, lenientHost, lastIssue,
                   nIssued>>

\* the instants at which the clock is read: the write delay of saveTicket lies
\* between the first two, and 1000000 ms between the last two
ClockSeq ==
    <<[day |-> DaysFromCivil(2024, 12, 31), ms |-> 86399200],
      [day |-> DaysFromCivil(2025, 1, 1), ms |-> 0],
      [day |-> DaysFromCivil(2025, 1, 1), ms |-> 1000000]>>

\* time passes
Tick ==
    /\ \E i \in 1..(Len(ClockSeq) - 1) : now = ClockSeq[i] /\ now' = ClockSeq[i + 1]
    /\ UNCHANGED <<file, parsed, trucks, loadingTrucks, selectedTruckId, invoiceData,
                   uploadError, isProcessing, lastPrintedTicket, feedbackMessage,
                   showPreviewModal, fetchPending, uploads, saves, saveCalled, store, lenientHost,
                   lastIssue, nIssued>>

\* the state of the form after construction (useState initial values)
FormInit ==
    /\ trucks = <<>>
    /\ loadingTrucks = TRUE
    /\ selectedTruckId = ""
    /\ invoiceData = NoData
    /\ uploadError = NoError
    /\ isProcessing = FALSE
    /\ lastPrintedTicket = NoTicket
    /\ feedbackMessage = NoFeedback
    /\ showPreviewModal = FALSE
    /\ fetchPending = TRUE
    /\ uploads = <<>>
    /\ saves = <<>>
    /\ saveCalled = <<>>
    /\ store = <<>>
    /\ lastIssue = "none"
    /\ nIssued = 0

AppTimeDraws == {TimeRandRes - 1}
AppFactorDraws == {0}

Init ==
    /\ file = MalformedFile
    /\ parsed = NoCall
    /\ FormInit
    /\ now = ClockSeq[1]
    /\ lenientHost = TRUE

Next ==
    \/ LoadData
    \/ \E f \in 1..Len(AppFiles) : HandleFileUpload(f)
    \/ \E i \in 1..Len(uploads) : UploadResolved(i)
    \/ HandleIssueTicket(AppTimeDraws, AppFactorDraws)
    \/ \E i \in 1..Len(saves) : SaveResolved(i)
    \/ \E i \in 1..Len(saves) : SaveRejected(i)
    \/ HandleReset
    \/ ClosePreview
    \/ Tick

Spec == Init /\ [][Next]_vars

-----------------------------------------------------------------------------
(* The ticket computation on its own: the form holds an extraction result and a  *)
(* selected truck, and handleIssueTicket is applied with every draw              *)

At(y, m, d, hh, mi) == TimeValue(DaysFromCivil(y, m, d), (hh * 60 + mi) * 60000)

\* invoiceDate as the extractor leaves it: absent, a raw text that is no date, or
\* a date formatted "YYYY-MM-DD HH:MM"
TicketInvoiceDates ==
    {NULL, TxtOntem}
    \cup {FormatDate(t) : t \in {At(2024, 1, 1, 10, 0), At(2023, 12, 31, 23, 59),
                                  At(2024, 2, 28, 0, 0), At(2024, 2, 29, 12, 30),
                                  At(2023, 2, 28, 7, 5), At(2024, 4, 30, 15, 45)}}
\* net weights, in hundredths of a kg
TicketNetWeights == {0, 100, 1000000, 1500000, 5000000, 5000050, 1234567}
TicketInputs ==
    {Result(Txt77, Num(n), d, NULL, NULL, NoError) :
        n \in TicketNetWeights, d \in TicketInvoiceDates}
TicketClocks ==
    {[day |-> DaysFromCivil(2024, 12, 31), ms |-> 86399999],
     [day |-> DaysFromCivil(2024, 2, 29), ms |-> 1],
     [day |-> DaysFromCivil(2025, 6, 30), ms |-> 43200000]}

TimeDraws == {0, 1, TimeRandRes \div 2, TimeRandRes - 2, TimeRandRes - 1}
FactorDraws == 0..(FactorRes - 1)

TicketInit ==
    /\ file = MalformedFile
    /\ parsed = NoCall
    /\ trucks = MOCK_TRUCKS
    /\ loadingTrucks = FALSE
    /\ fetchPending = FALSE
    /\ selectedTruckId \in {"TRK-STD-01", "CRT-HVY-01"}
    /\ invoiceData \in TicketInputs
    /\ uploadError = NoError
    /\ isProcessing = FALSE
    /\ lastPrintedTicket = NoTicket
    /\ feedbackMessage = [kind |-> "autoSelected"]
    /\ showPreviewModal = FALSE
    /\ uploads = <<>>
    /\ saves = <<>>
    /\ saveCalled = <<>>
    /\ store = <<>>
    /\ lastIssue = "none"
    /\ nIssued = 0
    /\ now \in TicketClocks
    /\ lenientHost \in BOOLEAN

TicketNext == HandleIssueTicket(TimeDraws, FactorDraws)

TicketSpec == TicketInit /\ [][TicketNext]_vars

-----------------------------------------------------------------------------
(* Claims about the ticket computation, checked under TicketSpec *)

\* the tickets handed to saveTicket and not yet stored
TicketsInFlight == {saves[i] : i \in 1..Len(saves)}

\* C1: for an integer net weight N and an integer tare T, grossWeightCalculated - T
\* lies in [N - 20, N + 20], whatever the variation factor.
C1_GrossWithin20 ==
    \A t \in TicketsInFlight :
        t.netWeightInvoice.v % 100 = 0 =>
            /\ (t.grossWeightCalculated - t.truckTareWeight) * 100 >= t.netWeightInvoice.v - 2000
            /\ (t.grossWeightCalculated - t.truckTareWeight) * 100 <= t.netWeightInvoice.v + 2000

\* C1 witness: N = 50000 kg, where 0.2% is more than 20 kg, and the ticket shows N + 20
C1_Witness ==
    \E t \in TicketsInFlight :
        /\ t.netWeightInvoice = Num(5000000)
        /\ t.grossWeightCalculated - t.truckTareWeight = 50020

IsLeap(y) == (y % 4 = 0 /\ y % 100 /= 0) \/ y % 400 = 0
DaysInMonth(y, m) ==
    IF m = 2 THEN (IF IsLeap(y) THEN 29 ELSE 28)
    ELSE IF m \in {4, 6, 9, 11} THEN 30 ELSE 31
\* the calendar day after c
NextCalendarDay(c) ==
    IF c.d < DaysInMonth(c.y, c.m) THEN [c EXCEPT !.d = @ + 1]
    ELSE IF c.m < 12 THEN [y |-> c.y, m |-> c.m + 1, d |-> 1]
    ELSE [y |-> c.y + 1, m |-> 1, d |-> 1]

\* the handler's parse of invoiceDate succeeds
InvoiceDateParses ==
    /\ invoiceData /= NoData
    /\ Truthy(invoiceData.invoiceDate)
    /\ ParseDate(invoiceData.invoiceDate, lenientHost).valid
\* the calendar date written in the first ten characters of invoiceDate
WrittenDate ==
    [y |-> DigitsValue(SubSeq(invoiceData.invoiceDate, 1, 4)),
     m |-> DigitsValue(SubSeq(invoiceData.invoiceDate, 6, 7)),
     d |-> DigitsValue(SubSeq(invoiceData.invoiceDate, 9, 10))]
IssueDateOf(t) == CivilFromDays(t.issueTimestamp.day)

\* C2 as stated: the issue date is the base date plus one calendar day, the base
\* being the parsed invoiceDate when it parses and the current time otherwise.
C2_NextDayOfBase ==
    \A t \in TicketsInFlight :
        IssueDateOf(t) = NextCalendarDay(IF InvoiceDateParses THEN WrittenDate
                                         ELSE CivilFromDays(now.day))

\* C2 amended: when invoiceDate parses, the issue date is its date plus exactly one
\* calendar day, rolling over month and year ends; when invoiceDate is absent or
\* does not parse, the issue date is the current date itself, with no day added.
C2_NextDayOfInvoiceElseToday ==
    \A t \in TicketsInFlight :
        IssueDateOf(t) = IF InvoiceDateParses THEN NextCalendarDay(WrittenDate)
                         ELSE CivilFromDays(now.day)

\* C2 witness: an invoice of 31 December 2023 gives a ticket of 1 January 2024
C2_Witness ==
    \E t \in TicketsInFlight :
        /\ InvoiceDateParses
        /\ WrittenDate = [y |-> 2023, m |-> 12, d |-> 31]
        /\ IssueDateOf(t) = [y |-> 2024, m |-> 1, d |-> 1]

\* C3: the time of day of issueTimestamp is a whole number of seconds in
\* [25970, 56750], whatever the time of day of the invoice date or of the clock;
\* the smallest draw gives 25970 and the largest 56750.
C3_TimeOfDayInRange ==
    /\ RandomSeconds(0) = 25970
    /\ RandomSeconds(TimeRandRes - 1) = 56750
    /\ \A t \in TicketsInFlight :
         /\ t.issueTimestamp.ms % 1000 = 0
         /\ t.issueTimestamp.ms \div 1000 >= 25970
         /\ t.issueTimestamp.ms \div 1000 <= 56750

\* C3 witness: no invoice date, a clock at 23:59:59.999, and a ticket at 15:45:50.000
C3_Witness ==
    \E t \in TicketsInFlight :
        /\ ~InvoiceDateParses
        /\ now.ms = 86399999
        /\ t.issueTimestamp.ms = 56750 * 1000

-----------------------------------------------------------------------------
(* Claims about the form, checked under Spec *)

\* the extraction result is complete and a vehicle is resolved
CompleteInput ==
    /\ invoiceData /= NoData
    /\ invoiceData.error = NoError
    /\ Truthy(invoiceData.invoiceId)
    /\ invoiceData.netWeight.k = "num"
    /\ SelectedTruck \in Range(MOCK_TRUCKS)

\* C4: a ticket is constructed and handed to saveTicket only when the current
\* extraction result has no error, an invoiceId and a numeric netWeight, and a
\* vehicle is resolved; it is then built whole from them; nothing else goes to the
\* store than a ticket handed to saveTicket.
C4_TicketOnlyFromCompleteInput ==
    [][/\ saves' /= saves /\ Len(saves') >= Len(saves) =>
            /\ CompleteInput
            /\ Len(saves') = Len(saves) + 1
            /\ SubSeq(saves', 1, Len(saves)) = saves
            /\ saves'[Len(saves')].invoiceId = invoiceData.invoiceId
            /\ saves'[Len(saves')].netWeightInvoice = invoiceData.netWeight
            /\ saves'[Len(saves')].truckId = SelectedTruck.truckId
            /\ saves'[Len(saves')].truckTareWeight = SelectedTruck.tareWeight
            /\ Truthy(saves'[Len(saves')].truckPlateNumber)
            /\ saves'[Len(saves')].issueTimestamp.valid
            /\ saves'[Len(saves')].ticketStatus = "Printed"
       /\ store' /= store =>
            \E i \in 1..Len(saves) :
                /\ Len(store') = Len(store) + 1
                /\ [store'[Len(store')] EXCEPT !.id = NoId] = saves[i]
       /\ ~CompleteInput => (Len(saves') <= Len(saves) /\ nIssued' = nIssued)
      ]_vars

\* C4 witness: the handler was called while no truck was selected and returned,
\* and no ticket exists
C4_Witness ==
    /\ lastIssue = "returned"
    /\ invoiceData /= NoData
    /\ SelectedTruck = NoTruck
    /\ saves = <<>> /\ store = <<>> /\ nIssued = 0

-----------------------------------------------------------------------------
(* The extractor on its own: a file is drawn and parseInvoiceXml is applied *)

\* every document under the dated file name; the other names on the documents of
\* at most one fragment
SmallDocuments == {Assemble(RootOnly, <<>>)} \cup {Assemble(RootOnly, <<fr>>) : fr \in Fragments}
\* documents with the dhEmi of a CT-e below its path, at the path or off it
TxtDhEmiPath ==
    <<"2", "0", "2", "3", "-", "1", "2", "-", "3", "1", "T", "0", "8", ":", "1", "5", ":", "0", "0">>
\* <t1><t2>...<tn>text</tn>...</t2></t1>
Chain(tags, text) ==
    [i \in 1..Len(tags) |-> El(tags[i], i - 1, IF i = Len(tags) THEN text ELSE <<>>)]
RootOf(tag) == <<El(tag, 0, <<>>)>>
PathDocuments ==
    {Assemble(RootOf(r), pre \o <<Chain(c, TxtDhEmiPath), Leaf("nCT", Txt77),
                                   InfQ(TxtPesoReal, Txt12345)>>) :
        r \in {"cteProc", "CTe", "doc"},
        pre \in {<<>>, <<Leaf("dhEmi", TxtDhEmi)>>, <<Leaf("dEmi", TxtDhEmi)>>},
        c \in {<<"CTe", "infCte", "ide", "dhEmi">>, <<"infCte", "ide", "dhEmi">>,
               <<"wrap", "CTe", "infCte", "ide", "dhEmi">>, <<"ide", "dhEmi">>}}
Files ==
    {XmlFile(NameDayFirst, d) : d \in Documents}
    \cup {XmlFile(n, d) : n \in FileNames, d \in SmallDocuments}
    \cup {XmlFile(NameNoDate, d) : d \in PathDocuments}
    \cup {MalformedFile, UnreadableFile}

\* none of the documents drawn has a date in the form whose parse depends on the host
ExtractInit ==
    /\ file \in Files
    /\ parsed = NoCall
    /\ FormInit
    /\ now = ClockSeq[1]
    /\ lenientHost = TRUE

\* const result = await parseInvoiceXml(file)
ParseCall ==
    /\ parsed = NoCall
    /\ parsed' = [called |-> TRUE, file |-> file,
                  result |-> ParseInvoiceXml(file, lenientHost)]
    /\ UNCHANGED <<file, appVars>>

ExtractNext == ParseCall

ExtractSpec == ExtractInit /\ [][ExtractNext]_vars

-----------------------------------------------------------------------------
(* Claims about the extractor, checked under ExtractSpec *)

\* the call was made on a file that was read and is well-formed XML
ParsedWellFormed ==
    parsed.called /\ parsed.file.readable /\ parsed.file.content.wellFormed
ParsedNodes == parsed.file.content.nodes

HasElement(nodes, tag) == \E i \in 1..Len(nodes) : nodes[i].tag = tag
\* the text of the first element, in document order, with the tag
FirstOccurrenceText(nodes, tag) ==
    TextContent(nodes, SetMin({i \in 1..Len(nodes) : nodes[i].tag = tag}))
NullIfEmpty(s) == IF s = <<>> THEN NULL ELSE s

\* C5 as stated: the first candidate tag, in list order, that has at least one
\* element in the tree supplies invoiceId (the trimmed text of its first
\* occurrence), also when that text is empty.
C5_FirstPresentTagWins ==
    ParsedWellFormed =>
        LET present == {k \in 1..Len(InvoiceIdTags) : HasElement(ParsedNodes, InvoiceIdTags[k])}
        IN  present /= {} =>
              parsed.result.invoiceId =
                NullIfEmpty(Trim(FirstOccurrenceText(ParsedNodes, InvoiceIdTags[SetMin(present)])))

\* C5 amended: the first candidate tag, in list order, whose first occurrence has
\* non-empty text content supplies invoiceId, as the trimmed text of that first
\* occurrence (null when the trimmed text is empty); a candidate whose first
\* occurrence has empty text is passed over; no such candidate: invoiceId is null.
C5_FirstNonEmptyTagWins ==
    ParsedWellFormed =>
        LET valued == {k \in 1..Len(InvoiceIdTags) :
                         /\ HasElement(ParsedNodes, InvoiceIdTags[k])
                         /\ FirstOccurrenceText(ParsedNodes, InvoiceIdTags[k]) /= <<>>}
        IN  IF valued = {} THEN parsed.result.invoiceId = NULL
            ELSE parsed.result.invoiceId =
                   NullIfEmpty(Trim(FirstOccurrenceText(ParsedNodes, InvoiceIdTags[SetMin(valued)])))

\* C5 witness: nNF (with text) precedes an nCT with text in the document, and
\* invoiceId is the nCT's text
C5_Witness ==
    /\ ParsedWellFormed
    /\ HasElement(ParsedNodes, "nCT") /\ HasElement(ParsedNodes, "nNF")
    /\ ParsedNodes[2].tag = "nNF"
    /\ FirstOccurrenceText(ParsedNodes, "nCT") = Txt77
    /\ parsed.result.invoiceId = Txt77

\* the infQ elements with tpMed "PESO REAL" (trimmed, upper-cased), in document order
PesoRealInfQs(nodes) ==
    {i \in 1..Len(nodes) : nodes[i].tag = "infQ" /\ TpMedOf(nodes, i) = PesoReal}
\* netWeight as the number read from the text w; a text that is no number
\* leaves netWeight null (or NaN)
NetWeightIs(w) ==
    IF IsNaN(ParseFloat(w)) THEN parsed.result.netWeight \in {NullNum, NaN}
    ELSE parsed.result.netWeight = ParseFloat(w)

\* C6 as stated: when some infQ has tpMed "PESO REAL" and a qCarga element,
\* netWeight is the qCarga of the first such infQ, whatever else the document holds.
C6_FirstPesoRealWithQCarga ==
    ParsedWellFormed =>
        LET such == {i \in PesoRealInfQs(ParsedNodes) : FirstText(ParsedNodes, i, "qCarga") /= NULL}
        IN  such /= {} => NetWeightIs(QCargaOf(ParsedNodes, SetMin(such)))

\* C6 amended: when some infQ has tpMed "PESO REAL" and a qCarga whose trimmed text
\* is not empty, netWeight is the qCarga of the first such infQ in document order,
\* whatever the order of the other infQ and whatever generic weight tags exist;
\* the generic ordered search decides only when there is no such infQ (an infQ
\* whose qCarga is empty is passed over).
C6_FirstPesoRealWithText ==
    ParsedWellFormed =>
        LET such == {i \in PesoRealInfQs(ParsedNodes) : Truthy(QCargaOf(ParsedNodes, i))}
            generic == GetTagValue(ParsedNodes, WeightTags)
        IN  IF such /= {} THEN NetWeightIs(QCargaOf(ParsedNodes, SetMin(such)))
            ELSE IF Truthy(generic) THEN NetWeightIs(generic)
            ELSE parsed.result.netWeight = NullNum

\* C6 witness: a generic PesoReal tag and an infQ with another tpMed precede the
\* "PESO REAL" infQ, and netWeight is that infQ's 12345
C6_Witness ==
    /\ ParsedWellFormed
    /\ Len(ParsedNodes) = 8
    /\ ParsedNodes[2].tag = "PesoReal"
    /\ ParsedNodes[3].tag = "infQ" /\ TpMedOf(ParsedNodes, 3) = TxtUnidade
    /\ ParsedNodes[6].tag = "infQ" /\ TpMedOf(ParsedNodes, 6) = PesoReal
    /\ parsed.result.netWeight = Num(1234500)

\* the whole text has the plate shape (3 upper-case letters, digit, alphanumeric, 2 digits)
IsPlateShape(s) ==
    /\ Len(s) = 7
    /\ \A i \in 1..3 : s[i] \in Range(UpperSeq)
    /\ s[4] \in Range(DigitSeq)
    /\ s[5] \in Range(DigitSeq) \cup Range(UpperSeq)
    /\ s[6] \in Range(DigitSeq) /\ s[7] \in Range(DigitSeq)
\* the result carries the plate that was extracted (the 'not numeric' return of
\* lines 267-270 carries invoiceId, netWeight and error only)
CarriesPlate == ParsedWellFormed /\ parsed.result.error /= ErrNotNumeric
\* the ObsCont elements whose xCampo contains "PLACA", case-insensitively
PlacaObs(nodes) ==
    {i \in 1..Len(nodes) : nodes[i].tag = "ObsCont" /\ Includes(XCampoOf(nodes, i), Placa)}

\* C7 as stated: a plate is extracted only from an xTexto that has the plate shape
\* ("ABC1D23" accepted, "AB12345" and "ABC12345" rejected); first match wins, else null.
C7_OnlyPlateShapedText ==
    CarriesPlate =>
        LET shaped == {i \in PlacaObs(ParsedNodes) : IsPlateShape(XTextoOf(ParsedNodes, i))}
        IN  IF shaped = {} THEN parsed.result.extractedPlate = NULL
            ELSE parsed.result.extractedPlate = XTextoOf(ParsedNodes, SetMin(shaped))

\* the text contains, somewhere, seven characters of the plate shape
ContainsPlate(s) == \E i \in 1..(Len(s) - 6) : IsPlateShape(SubSeq(s, i, i + 6))
\* the first (leftmost) such seven characters
FirstPlateIn(s) ==
    SubSeq(s, SetMin({i \in 1..(Len(s) - 6) : IsPlateShape(SubSeq(s, i, i + 6))}),
              SetMin({i \in 1..(Len(s) - 6) : IsPlateShape(SubSeq(s, i, i + 6))}) + 6)

\* C7 amended: the matcher accepts "ABC1D23", rejects "AB12345", and takes "ABC1234"
\* out of "ABC12345": a plate is extracted from any xTexto that contains seven
\* consecutive characters of the plate shape (the leftmost such seven); the first
\* ObsCont with "PLACA" in xCampo whose xTexto contains one wins, else null.
C7_PlateFoundInsideText ==
    /\ MatchPlate(TxtPlateOk) = TxtPlateOk
    /\ MatchPlate(TxtPlateShort) = NULL
    /\ MatchPlate(TxtPlateLong) = SubSeq(TxtPlateLong, 1, 7)
    /\ CarriesPlate =>
        LET holding == {i \in PlacaObs(ParsedNodes) : ContainsPlate(XTextoOf(ParsedNodes, i))}
        IN  IF holding = {} THEN parsed.result.extractedPlate = NULL
            ELSE parsed.result.extractedPlate = FirstPlateIn(XTextoOf(ParsedNodes, SetMin(holding)))

\* C7 witness: the first ObsCont holds "AB12345" (no plate), the next "ABC12345",
\* and the plate extracted is "ABC1234"
C7_Witness ==
    /\ ParsedWellFormed
    /\ Len(ParsedNodes) >= 5
    /\ ParsedNodes[2].tag = "ObsCont" /\ XTextoOf(ParsedNodes, 2) = TxtPlateShort
    /\ ParsedNodes[4].tag = "ObsCont" /\ XTextoOf(ParsedNodes, 4) = TxtPlateLong
    /\ parsed.result.extractedPlate = SubSeq(TxtPlateLong, 1, 7)

\* C8 as stated: weight text found that is no number gives netWeight = null, the
\* invoiceId found (if any) and the 'net weight not numeric' error, also when
\* invoiceId is missing.
C8_NotNumericResult ==
    (ParsedWellFormed /\ Truthy(NetWeightString(ParsedNodes))
                      /\ IsNaN(ParseFloat(NetWeightString(ParsedNodes)))) =>
        /\ parsed.result.netWeight = NullNum
        /\ parsed.result.error = ErrNotNumeric
        /\ parsed.result.invoiceId = NullIfEmpty(GetTagValue(ParsedNodes, InvoiceIdTags))

\* C9: error is set exactly when the document is unreadable or malformed, or
\* invoiceId is null, or netWeight is null or not a number; a result without error
\* has a non-empty invoiceId and a numeric netWeight; every call returns a result.
C9_ErrorIffIncomplete ==
    parsed.called =>
        /\ parsed.result.error \in
             {NoError, ErrInvalidXml, ErrNotNumeric, ErrReadFailure}
             \cup {ErrMissing(m) : m \in SUBSET {"invoiceId", "netWeight"} \ {{}}}
        /\ (parsed.result.error /= NoError) <=>
             \/ ~parsed.file.readable
             \/ ~parsed.file.content.wellFormed
             \/ parsed.result.invoiceId = NULL
             \/ parsed.result.netWeight \in {NullNum, NaN}
        /\ parsed.result.error = NoError =>
             /\ parsed.result.invoiceId /= NULL
             /\ Len(parsed.result.invoiceId) > 0
             /\ parsed.result.netWeight.k = "num"

\* C9 witness: invoiceId found, weight text "abc": error set, netWeight null
C9_Witness ==
    /\ ParsedWellFormed
    /\ parsed.result.invoiceId = Txt77
    /\ NetWeightString(ParsedNodes) = TxtAbc
    /\ parsed.result.netWeight = NullNum
    /\ parsed.result.error /= NoError

\* the fragment fr made the first child of the root, before everything else
Prepend(nodes, fr) ==
    <<nodes[1]>> \o Shift(fr, 1)
    \o [i \in 1..(Len(nodes) - 1) |->
          [nodes[i + 1] EXCEPT !.parent = IF @ <= 1 THEN @ ELSE @ + Len(fr)]]

\* the file with the required fields that f lacks (an invoice id, a numeric
\* "PESO REAL" weight) put in first place
Completed(f) ==
    LET n0 == f.content.nodes
        w  == NetWeightString(n0)
        n1 == IF Truthy(w) /\ ~IsNaN(ParseFloat(w)) THEN n0
              ELSE Prepend(n0, InfQ(TxtPesoReal, Txt500))
        n2 == IF Truthy(GetTagValue(n0, InvoiceIdTags)) THEN n1
              ELSE Prepend(n1, Leaf("cCT", Txt77))
    IN  [f EXCEPT !.content.nodes = n2]

\* C10: when invoiceId or the weight text is not found in a well-formed document,
\* the error lists exactly the field(s) not found; invoiceDate, extractedPlate and
\* filenameDate are those of the same document and filename with the required
\* fields present; the one of invoiceId / netWeight that was found is retained.
C10_MissingKeepsDerived ==
    (ParsedWellFormed /\ (~Truthy(GetTagValue(ParsedNodes, InvoiceIdTags))
                          \/ ~Truthy(NetWeightString(ParsedNodes)))) =>
        LET full == ParseInvoiceXml(Completed(parsed.file), lenientHost)
            idFound == Truthy(GetTagValue(ParsedNodes, InvoiceIdTags))
            wFound == Truthy(NetWeightString(ParsedNodes))
        IN  /\ parsed.result.error =
                 ErrMissing((IF idFound THEN {} ELSE {"invoiceId"})
                            \cup (IF wFound THEN {} ELSE {"netWeight"}))
            /\ full.error = NoError
            /\ parsed.result.invoiceDate = full.invoiceDate
            /\ parsed.result.extractedPlate = full.extractedPlate
            /\ parsed.result.filenameDate = full.filenameDate
            /\ idFound => parsed.result.invoiceId = full.invoiceId
            /\ idFound <=> parsed.result.invoiceId /= NULL
            /\ wFound => NetWeightIs(NetWeightString(ParsedNodes))
            /\ wFound <=> parsed.result.netWeight /= NullNum

\* C10 witness: invoiceId missing; the weight, the date, the plate and the
\* filename date are all there
C10_Witness ==
    /\ ParsedWellFormed
    /\ parsed.result.error = ErrMissing({"invoiceId"})
    /\ parsed.result.invoiceId = NULL
    /\ parsed.result.netWeight = Num(5000000)
    /\ parsed.result.invoiceDate /= NULL
    /\ parsed.result.extractedPlate = TxtPlateOk
    /\ parsed.result.filenameDate /= NULL

\* ---------------------------------------------------------------------------
\* C11: the date of the filename

\* position i of the name starts YYYY sep MM sep DD
YearFirstAt(name, i) ==
    /\ i + 9 <= Len(name)
    /\ \A k \in {0, 1, 2, 3, 5, 6, 8, 9} : name[i + k] \in Range(DigitSeq)
    /\ \A k \in {4, 7} : name[i + k] \in {"-", "."}

\* position i of the name starts DD sep MM sep YYYY
DayFirstAt(name, i) ==
    /\ i + 9 <= Len(name)
    /\ \A k \in {0, 1, 3, 4, 6, 7, 8, 9} : name[i + k] \in Range(DigitSeq)
    /\ \A k \in {2, 5} : name[i + k] \in {"-", "."}

Digits(name, i, n) == [k \in 1..n |-> name[i + k - 1]]

\* results that carry the fields computed before the required-field checks
CarriesFilenameDate == ParsedWellFormed /\ parsed.result.error /= ErrNotNumeric

\* C11: filenameDate is "YYYY-MM-DD 12:00" from the first year-first match of the
\* filename; without a year-first match, from the first day-first match, reordered;
\* without either, null.
C11_FilenameDate ==
    CarriesFilenameDate =>
        LET name == parsed.file.name
            ys == {i \in 1..Len(name) : YearFirstAt(name, i)}
            ds == {i \in 1..Len(name) : DayFirstAt(name, i)}
            y  == CHOOSE i \in ys : \A j \in ys : i <= j
            d  == CHOOSE i \in ds : \A j \in ds : i <= j
        IN  parsed.result.filenameDate =
              IF ys /= {}
              THEN Digits(name, y, 4) \o <<"-">> \o Digits(name, y + 5, 2) \o <<"-">>
                   \o Digits(name, y + 8, 2) \o <<" ", "1", "2", ":", "0", "0">>
              ELSE IF ds /= {}
              THEN Digits(name, d + 6, 4) \o <<"-">> \o Digits(name, d + 3, 2) \o <<"-">>
                   \o Digits(name, d, 2) \o <<" ", "1", "2", ":", "0", "0">>
              ELSE NULL

\* C11 witness: a filename with a day-first date ahead of a year-first date was
\* parsed, and the year-first date was taken
C11_Witness ==
    /\ CarriesFilenameDate
    /\ parsed.file.name = NameBoth
    /\ parsed.result.filenameDate =
         <<"2", "0", "2", "3", "-", "0", "1", "-", "0", "2", " ", "1", "2", ":", "0", "0">>

\* ---------------------------------------------------------------------------
\* One upload in flight over the form, resolved: the file is drawn among
\* SelectFiles, the catalog is loaded or not, the handler of the upload has seen
\* the loaded catalog or the empty list of before the load, and a vehicle of an
\* earlier document may be selected.

SelectInit ==
    /\ file = MalformedFile
    /\ parsed = NoCall
    /\ now = ClockSeq[1]
    /\ lenientHost \in BOOLEAN
    /\ \E loaded \in BOOLEAN, seen \in BOOLEAN, f \in 1..Len(SelectFiles) :
         /\ seen => loaded
         /\ trucks = IF loaded THEN MOCK_TRUCKS ELSE <<>>
         /\ loadingTrucks = ~loaded
         /\ fetchPending = ~loaded
         /\ uploads = <<[file |-> f, trucks |-> IF seen THEN MOCK_TRUCKS ELSE <<>>]>>
         /\ selectedTruckId \in IF loaded THEN {"", "TRK-STD-01", "CRT-HVY-01"} ELSE {""}
    /\ feedbackMessage \in {NoFeedback, [kind |-> "autoSelectFailed"]} \cup
                           (IF selectedTruckId = "" THEN {} ELSE {[kind |-> "autoSelected"]})
    /\ invoiceData = NoData
    /\ uploadError = NoError
    /\ isProcessing = TRUE
    /\ lastPrintedTicket = NoTicket
    /\ showPreviewModal = FALSE
    /\ saves = <<>>
    /\ saveCalled = <<>>
    /\ store = <<>>
    /\ lastIssue = "none"
    /\ nIssued = 0

SelectNext == \E i \in 1..Len(uploads) : UploadResolved(i)

SelectSpec == SelectInit /\ [][SelectNext]_vars

\* ---------------------------------------------------------------------------
\* C12: the automatic selection of the vehicle

CategoryTruck == <<"T", "R", "U", "C", "K">>
CategoryCarreta == <<"C", "A", "R", "R", "E", "T", "A">>

\* C12: when an upload resolves with a result without error, the result is
\* accepted; the category is TRUCK exactly when netWeight <= 15000, else CARRETA;
\* the vehicle selected is the entry of the catalog the handler holds whose label is
\* that category, and without such an entry the selection is left alone, no error
\* is set and the informational message is shown.
C12_AutoSelectByThreshold ==
    [][\A i \in 1..Len(uploads) :
         LET u == uploads[i]
             r == ParseInvoiceXml(SelectFiles[u.file], lenientHost)
             category == IF r.netWeight.v <= 1500000 THEN CategoryTruck ELSE CategoryCarreta
             entries == {j \in 1..Len(u.trucks) : u.trucks[j].plateNumber = category}
         IN  (uploads' = RemoveAt(uploads, i) /\ r.error = NoError) =>
               /\ r.netWeight.k = "num"
               /\ uploadError' = NoError
               /\ invoiceData' = r
               /\ IF entries /= {}
                  THEN /\ \E j \in entries : /\ \A k \in entries : j <= k
                                             /\ selectedTruckId' = u.trucks[j].truckId
                       /\ feedbackMessage' = [kind |-> "autoSelected"]
                  ELSE /\ selectedTruckId' = selectedTruckId
                       /\ feedbackMessage' = [kind |-> "autoSelectFailed"]]_vars

\* C12 witness: a document of exactly 15000 kg was accepted and the TRUCK entry
\* selected
C12_Witness ==
    /\ uploads = <<>>
    /\ invoiceData /= NoData
    /\ invoiceData.netWeight = Num(1500000)
    /\ selectedTruckId = "TRK-STD-01"
    /\ feedbackMessage = [kind |-> "autoSelected"]

\* ---------------------------------------------------------------------------
\* C13: the date of the document

DirectChildren(nodes, ctx, tag) ==
    {i \in 1..Len(nodes) : nodes[i].parent = ctx /\ nodes[i].tag = tag}

\* the element a path of direct children ends at, -1 when a segment is absent
RECURSIVE ChildWalk(_, _, _)
ChildWalk(nodes, ctx, parts) ==
    IF parts = <<>> THEN ctx
    ELSE LET c == DirectChildren(nodes, ctx, Head(parts))
         IN  IF c = {} THEN -1
             ELSE ChildWalk(nodes, CHOOSE i \in c : \A j \in c : i <= j, Tail(parts))

ChildPathText(nodes, parts) ==
    LET end == ChildWalk(nodes, 0, parts)
    IN  IF end = -1 THEN NULL ELSE NullIfEmpty(Trim(TextContent(nodes, end)))

\* the invoiceDate made of a raw text: formatted when it parses, else as found
DateOfRaw(raw, lenient) ==
    IF ~Truthy(raw) THEN NULL
    ELSE IF ParseDate(raw, lenient).valid THEN FormatDate(ParseDate(raw, lenient))
    ELSE raw

\* C13 as stated: invoiceDate comes from the dhEmi at the end of the path of
\* direct children cteProc/CTe/infCte/ide/dhEmi, else of CTe/infCte/ide/dhEmi,
\* else from the generic search over [dhEmi, dEmi, IssueDate, Date]; a dhEmi
\* elsewhere is reached only through the generic search.
C13_StrictPathsOfDirectChildren ==
    CarriesFilenameDate =>
        LET a == ChildPathText(ParsedNodes, <<"cteProc", "CTe", "infCte", "ide", "dhEmi">>)
            b == ChildPathText(ParsedNodes, <<"CTe", "infCte", "ide", "dhEmi">>)
            g == GetTagValue(ParsedNodes, <<"dhEmi", "dEmi", "IssueDate", "Date">>)
            raw == IF Truthy(a) THEN a ELSE IF Truthy(b) THEN b ELSE g
        IN  parsed.result.invoiceDate = DateOfRaw(raw, lenientHost)

\* ---------------------------------------------------------------------------
\* C14: the ticket computation called on an incomplete input

\* C14 as stated: a call of the handler that line 131 turns away (the result has
\* an error, invoiceId or netWeight is absent, or no vehicle is resolved) ends in a
\* failure reported to the caller, never in a plain return, and changes nothing
\* of the form.
C14_IncompleteInputFails ==
    [][(~IssueAllowed /\ lastIssue' /= lastIssue) =>
          /\ lastIssue' = "failed"
          /\ UNCHANGED <<trucks, loadingTrucks, selectedTruckId, invoiceData, uploadError,
                         isProcessing, lastPrintedTicket, showPreviewModal, uploads, saves,
                         store>>]_vars

\* ---------------------------------------------------------------------------
\* C15: the vehicle of an issued ticket

\* the tickets issued so far: handed to saveTicket, or stored
IssuedTickets == Range(saves) \cup Range(store)

\* the label of the catalog entry a ticket carries
LabelOfTruck(id) ==
    LET at == {j \in 1..Len(MOCK_TRUCKS) : MOCK_TRUCKS[j].truckId = id}
    IN  IF at = {} THEN NULL ELSE MOCK_TRUCKS[CHOOSE j \in at : TRUE].plateNumber

\* C15 as stated: every ticket issued carries the vehicle whose label is the
\* category of the ticket's own net weight, TRUCK up to 15000 kg and CARRETA above.
C15_TicketVehicleMatchesWeight ==
    \A t \in IssuedTickets :
        LabelOfTruck(t.truckId) =
            IF t.netWeightInvoice.v <= 1500000 THEN CategoryTruck ELSE CategoryCarreta

\* ---------------------------------------------------------------------------
\* C16: the upload and the load of the catalog

\* C16 as stated: once the catalog is loaded and the upload of a valid document
\* has been handled, whichever came first, the catalog vehicle of the category of
\* the document's weight is selected and the issue of a ticket is enabled.
C16_SelectedWhateverTheOrder ==
    (trucks = MOCK_TRUCKS /\ uploads = <<>> /\ saves = <<>> /\ invoiceData /= NoData) =>
        /\ SelectedTruck /= NoTruck
        /\ SelectedTruck.plateNumber =
             IF invoiceData.netWeight.v <= 1500000 THEN CategoryTruck ELSE CategoryCarreta
        /\ ButtonEnabled

\* ---------------------------------------------------------------------------
\* C17: the new session and the calls still in flight

\* A ticket is handed to saveTicket only while a vehicle is selected (line 131),
\* and only handleReset clears the selection (line 247): while selectedTruckId is
\* '' every save in flight was started before the last reset.  So the ticket of
\* an earlier session is not shown when no step taken without a selection sets
\* lastPrintedTicket or opens the preview.
NoTicketShownFromBeforeReset ==
    selectedTruckId = "" =>
        /\ lastPrintedTicket' = NoTicket \/ lastPrintedTicket' = lastPrintedTicket
        /\ showPreviewModal' => showPreviewModal

\* the issue button is disabled while a save or an upload is in flight
NoIssueWhileInFlight == (saves /= <<>> \/ uploads /= <<>>) => ~ButtonEnabled

\* C17 as stated: after handleReset no ticket is shown and the preview stays
\* closed until an issuance started after the reset completes, also when a save
\* started before the reset resolves after it; and the issue action is disabled
\* for as long as a save or an upload started earlier is in flight.
C17_ResetHoldsAgainstInFlight ==
    [][NoTicketShownFromBeforeReset /\ NoIssueWhileInFlight]_vars

\* the first half of C17 alone
C17_NoStaleTicketAfterReset == [][NoTicketShownFromBeforeReset]_vars

\* the second half of C17 alone
C17_DisabledWhileInFlight == NoIssueWhileInFlight

\* ---------------------------------------------------------------------------
\* C18: the store of tickets

\* C18 as stated: the store holds one record for each call of saveTicket that
\* resolved, no two records have the same id, and each record is the ticket
\* passed in with nothing but the id changed.
C18_StoreRecordsOnceWithUniqueId ==
    /\ Len(store) + Len(saves) <= nIssued
    /\ \A i, j \in 1..Len(store) : store[i].id = store[j].id => i = j
    /\ \A i \in 1..Len(store) :
         /\ store[i].id /= NoId
         /\ store[i].ticketStatus = "Printed"
         /\ store[i].issueTimestamp.valid

\* C18 without the uniqueness of the ids: a resolved call adds exactly one record
\* at the end of the store, equal to the ticket passed in on every field but id,
\* and the records already stored are left as they are.
C18_StoreAppendsTicketAsPassed ==
    [][store' /= store =>
         /\ Len(store') = Len(store) + 1
         /\ SubSeq(store', 1, Len(store)) = store
         /\ \E i \in 1..Len(saves) :
              /\ saves' = RemoveAt(saves, i)
              /\ store'[Len(store')].id /= NoId
              /\ \A fld \in DOMAIN saves[i] \ {"id"} :
                   store'[Len(store')][fld] = saves[i][fld]
              /\ DOMAIN store'[Len(store')] = DOMAIN saves[i]]_vars


=============================================================================
